---- MODULE Spec2Model ----
(***************************************************************************)
(* bulwark/decorators.py: BaseDecorator (the generic wrapper with its      *)
(* three data-location modes), decorator_factory and the import-time loop  *)
(* that generates one decorator class per check of bulwark.checks, and the *)
(* hand-written CustomCheck class.                                          *)
(***************************************************************************)
EXTENDS FiniteSets, Integers, Sequences, TLC

\* ------------------------------------------------------------------ bounds
\* Longest positional argument list a caller passes to a wrapped callable.
MaxPos == 2
\* Integer locators range over -MaxIdx .. MaxIdx.
MaxIdx == 2
\* Longest positional configuration list given to a decorator constructor.
MaxCfg == 1

\* ---------------------------------------------------------- Python values
\* One uniform record shape for every Python value the model handles:
\* t is type(v).__name__, i the numeric payload, s the text payload (a str,
\* or the name of a function or class), items the elements of a tuple/list.
PyNone == [t |-> "NoneType", i |-> 0, s |-> "", items |-> <<>>]
PyInt(n) == [t |-> "int", i |-> n, s |-> "", items |-> <<>>]
PyBool(b) == [t |-> "bool", i |-> IF b THEN 1 ELSE 0, s |-> "", items |-> <<>>]
PyFloat(n) == [t |-> "float", i |-> n, s |-> "", items |-> <<>>]
PyStr(x) == [t |-> "str", i |-> 0, s |-> x, items |-> <<>>]
PyTuple(xs) == [t |-> "tuple", i |-> 0, s |-> "", items |-> xs]
PyList(xs) == [t |-> "list", i |-> 0, s |-> "", items |-> xs]
PyFunc(name) == [t |-> "function", i |-> 0, s |-> name, items |-> <<>>]
PyClass(name) == [t |-> "type", i |-> 0, s |-> name, items |-> <<>>]

\* type(v)
TypeOf(v) == v.t

\* bool(v): the truth value Python's `if v` / `not v` uses.
Truthy(v) ==
    CASE v.t = "NoneType" -> FALSE
      [] v.t \in {"bool", "int", "float"} -> v.i # 0
      [] v.t = "str" -> v.s # ""
      [] v.t \in {"tuple", "list"} -> v.items # <<>>
      [] OTHER -> TRUE

\* inspect.Parameter.empty: the CLASS inspect._empty, used by inspect as the
\* marker "this parameter declares no default".
ParameterEmpty == PyClass("_empty")

\* isinstance(v, cls): v's type is the class cls.  (No class of the model
\* has subclasses that occur as values.)
IsInstance(v, cls) == cls.t = "type" /\ TypeOf(v) = cls.s

\* ------------------------------------------------------------------ dicts
\* A dict with string keys is a function from a finite set of strings.
EmptyDict == [k \in {} |-> PyNone]

\* d.update(e)
Update(d, e) ==
    [k \in DOMAIN d \cup DOMAIN e |-> IF k \in DOMAIN e THEN e[k] ELSE d[k]]

Min(a, b) == IF a < b THEN a ELSE b

\* dict(zip(names, values)): pairs up to the shorter length; a repeated name
\* keeps its last value.
Zip(names, values) ==
    LET n == Min(Len(names), Len(values))
        last(k) == CHOOSE j \in 1..n :
                      /\ names[j] = k
                      /\ \A h \in 1..n : names[h] = k => h <= j
    IN  [k \in {names[j] : j \in 1..n} |-> values[last(k)]]

\* d.get(k, default)
Get(d, k, default) == IF k \in DOMAIN d THEN d[k] ELSE default

\* {k: v for k, v in d.items() if k not in drop}
Without(d, drop) == [k \in DOMAIN d \ drop |-> d[k]]

\* xs[1:]
Rest(xs) == IF xs = <<>> THEN <<>> ELSE Tail(xs)

\* ------------------------------------------------- signatures and binding
\* A declared parameter (positional-or-keyword): its name and its default,
\* ParameterEmpty when it declares none.
Param(name) == [name |-> name, default |-> ParameterEmpty]
ParamDefault(name, d) == [name |-> name, default |-> d]

\* The position of parameter `name` in signature sig (0 when absent).
ParamIndex(sig, name) ==
    IF \E j \in 1..Len(sig) : sig[j].name = name
    THEN CHOOSE j \in 1..Len(sig) : sig[j].name = name
    ELSE 0

\* Signature.bind(*args, **kwargs) succeeds: no surplus positional, every
\* keyword names a parameter not already filled positionally, and every
\* parameter without a default is supplied.  Python's own call f(*args,
\* **kwargs) applies the same rule before the body runs.
BindOK(sig, pos, kw) ==
    /\ Len(pos) <= Len(sig)
    /\ \A k \in DOMAIN kw : ParamIndex(sig, k) > Len(pos)
    /\ \A j \in 1..Len(sig) :
          \/ j <= Len(pos)
          \/ sig[j].name \in DOMAIN kw
          \/ sig[j].default # ParameterEmpty

\* bound_args.arguments after bind(...) and apply_defaults().
BoundArguments(sig, pos, kw) ==
    [k \in {sig[j].name : j \in 1..Len(sig)} |->
        LET j == ParamIndex(sig, k)
        IN  IF j <= Len(pos) THEN pos[j]
            ELSE IF k \in DOMAIN kw THEN kw[k]
            ELSE sig[j].default]

\* BaseDecorator._has_arg_name
_has_arg_name(arg_name, func) == ParamIndex(func.sig, arg_name) # 0

\* BaseDecorator._get_arg_default
_get_arg_default(func, arg_name) ==
    func.sig[ParamIndex(func.sig, arg_name)].default

\* A resolver that does not apply the target's declared defaults.
_get_arg_value_NoDefaults(func, arg_name, pos, kw) ==
    LET j == ParamIndex(func.sig, arg_name)
    IN  IF j <= Len(pos) THEN pos[j] ELSE Get(kw, arg_name, PyNone)

\* BaseDecorator._get_arg_value (called only when the arguments bind)
_get_arg_value(func, arg_name, pos, kw) ==
    BoundArguments(func.sig, pos, kw)[arg_name]

\* ------------------------------------------------- functions as objects
\* A function object is PyFunc(id); its attributes are read through tables.
\* inspect.getfullargspec(func).args for the check operations of the model:
\* two checks of bulwark.checks, and two checks a user writes for CustomCheck.
getfullargspec_args(func) ==
    CASE func.s = "is_shape" -> <<"df", "shape">>
      [] func.s = "custom_check" -> <<"df", "check_func">>
      [] func.s = "len_longer_than" -> <<"df", "l">>
      [] func.s = "is_ok" -> <<"df">>
      [] OTHER -> <<"df">>

\* callable(v), as getfullargspec requires.
IsCallable(v) == TypeOf(v) = "function"

\* A target function: its __name__ and its declared signature.  Its body is
\* opaque: what it does on a call is chosen by the caller of the model.
Func(name, sig) == [name |-> name, sig |-> sig]
NoFunc == Func("", <<>>)

\* ------------------------------------------------- events and outcomes
\* What one call of a wrapped callable did, in order: the calls it made to
\* the target and to the check operation, each with the arguments passed.
TargetEv(f, pos, kw, ret) ==
    [ev |-> "target", func |-> PyFunc(f.name), pos |-> pos, kw |-> kw, ret |-> ret]
CheckEv(func, pos, kw) ==
    [ev |-> "check", func |-> func, pos |-> pos, kw |-> kw, ret |-> PyNone]

Return(v) == [kind |-> "return", val |-> v, err |-> ""]
Raise(e) == [kind |-> "raise", val |-> PyNone, err |-> e]
Run(trace, out) == [trace |-> trace, out |-> out]

\* a; b  -- b is evaluated only when a did not raise
Then(a, b) == IF a.out.kind = "raise" THEN a ELSE Run(a.trace \o b.trace, b.out)

\* f(*args, **kwargs): Python binds the arguments first (TypeError, body not
\* entered); then the body runs and returns tgt.ret or raises.
CallTarget(f, pos, kw, tgt) ==
    IF ~BindOK(f.sig, pos, kw) THEN Run(<<>>, Raise("TypeError"))
    ELSE IF tgt.raises
         THEN Run(<<TargetEv(f, pos, kw, PyNone)>>, Raise("TargetError"))
         ELSE Run(<<TargetEv(f, pos, kw, tgt.ret)>>, Return(tgt.ret))

\* check(*pos, **kw): the check operation is opaque; it either returns or
\* raises (chk).
CallCheck(func, pos, kw, chk) ==
    Run(<<CheckEv(func, pos, kw)>>,
        IF chk THEN Raise("CheckError") ELSE Return(PyNone))

\* ----------------------------------------------------------- instances
\* An instance of a decorator class.  kind is the class's base
\* ("BaseDecorator" or "CustomCheck"); check_func is the class attribute of
\* a generated class, or CustomCheck's instance attribute; dict is the
\* instance __dict__ apart from CustomCheck's check_func and
\* check_func_params, which get fields of their own.
Instance(kind, check_func, dict, check_func_params) ==
    [kind |-> kind, check_func |-> check_func, dict |-> dict,
     check_func_params |-> check_func_params]
NoObject == Instance("none", PyNone, EmptyDict, EmptyDict)

\* BaseDecorator.df_allowed_types
df_allowed_types == {"int", "str", "NoneType"}

\* BaseDecorator._df
_df(self) == Get(self.dict, "df", PyNone)

Names(xs) == [j \in 1..Len(xs) |-> PyStr(xs[j])]

\* BaseDecorator.__init__ on a generated class cls: the instance built, or
\* the error raised.
BaseDecorator_init(cls, args, kwargs) ==
    LET enabled == Get(kwargs, "enabled", PyBool(TRUE))
        kw == Without(kwargs, {"enabled"})
        params == Rest(getfullargspec_args(cls.check_func))
        d0 == [k \in {"enabled", "params"} |->
                  IF k = "enabled" THEN enabled ELSE PyList(Names(params))]
        d1 == Update(d0, Zip(params, args))
        d2 == Update(d1, kw)
        self == Instance("BaseDecorator", cls.check_func, d2, EmptyDict)
    IN  IF TypeOf(_df(self)) \notin df_allowed_types
        THEN [self |-> NoObject, out |-> Raise("TypeError")]
        ELSE [self |-> self, out |-> Return(PyNone)]

\* An application that does not validate a string locator.
BaseDecorator_call_Unvalidated(self, f) == Return(PyNone)

\* BaseDecorator.__call__(f), up to the return of `decorated`: whether the
\* wrapped callable is produced, or the error raised.
BaseDecorator_call(self, f) ==
    IF TypeOf(_df(self)) = "str" /\ ~_has_arg_name(_df(self).s, f)
    THEN Raise("NameError")
    ELSE Return(PyNone)

\* A wrapper that ignores its enabled flag.
IsEnabled_AlwaysOn(self) == TRUE

\* `if not self.enabled` (BaseDecorator) / `if self.enabled` (CustomCheck)
IsEnabled(self) == Truthy(self.dict["enabled"])

\* Indexing that takes i as a 1-based position.
TupleIndex_OneBased(res, i) == IF 1 <= i /\ i <= Len(res.items) THEN i ELSE 0

\* res[i] on a tuple: Python indexing, negative indices from the end.
\* The 1-based position in items, or 0 for IndexError.
TupleIndex(res, i) ==
    LET n == Len(res.items)
    IN  IF 0 <= i /\ i < n THEN i + 1
        ELSE IF i < 0 /\ -n <= i THEN n + i + 1
        ELSE 0

\* `isinstance(df_default, Parameter.empty) or (df_value is not None)`
ShouldCheckArg(df_default, df_value) ==
    IsInstance(df_default, ParameterEmpty) \/ df_value # PyNone

\* A return-value branch that checks a tuple's first element, not the tuple.
DecoratedNone_Unpacks(self, f, pos, kw, tgt, chk, check_kwargs) ==
    LET r == CallTarget(f, pos, kw, tgt)
        res == r.out.val
        data == IF TypeOf(res) = "tuple" /\ res.items # <<>> THEN res.items[1] ELSE res
        c == CallCheck(self.check_func, <<>>,
                       Update(check_kwargs, [k \in {"df"} |-> data]), chk)
    IN  Then(Then(r, c), Run(<<>>, Return(res)))

\* decorated(), branch `self._df is None`
DecoratedNone(self, f, pos, kw, tgt, chk, check_kwargs) ==
    LET r == CallTarget(f, pos, kw, tgt)
        res == r.out.val
        c == CallCheck(self.check_func, <<>>,
                       Update(check_kwargs, [k \in {"df"} |-> res]), chk)
    IN  Then(Then(r, c), Run(<<>>, Return(res)))

\* decorated(), branch `type(self._df) is int`
DecoratedInt(self, f, pos, kw, tgt, chk, check_kwargs) ==
    LET r == CallTarget(f, pos, kw, tgt)
        res == r.out.val
        j == TupleIndex(res, _df(self).i)
        c == CallCheck(self.check_func, <<>>,
                       Update(check_kwargs, [k \in {"df"} |-> res.items[j]]), chk)
    IN  IF r.out.kind = "raise" THEN r
        ELSE IF TypeOf(res) # "tuple" THEN Then(r, Run(<<>>, Raise("TypeError")))
        ELSE IF j = 0 THEN Then(r, Run(<<>>, Raise("IndexError")))
        ELSE Then(Then(r, c), Run(<<>>, Return(res)))

\* A named-argument branch that calls the target before it checks.
DecoratedStr_CheckAfterCall(self, f, pos, kw, tgt, chk, check_kwargs) ==
    LET name == _df(self).s
        df_default == _get_arg_default(f, name)
        df_value == _get_arg_value(f, name, pos, kw)
        c == CallCheck(self.check_func, <<>>,
                       Update(check_kwargs, [k \in {"df"} |-> df_value]), chk)
        r == CallTarget(f, pos, kw, tgt)
    IN  IF ~BindOK(f.sig, pos, kw) THEN Run(<<>>, Raise("TypeError"))
        ELSE IF ShouldCheckArg(df_default, df_value)
             THEN Then(Then(r, c), Run(<<>>, r.out))
        ELSE r

\* decorated(), branch `type(self._df) is str`
DecoratedStr(self, f, pos, kw, tgt, chk, check_kwargs) ==
    LET name == _df(self).s
        df_default == _get_arg_default(f, name)
        df_value == _get_arg_value(f, name, pos, kw)
        c == CallCheck(self.check_func, <<>>,
                       Update(check_kwargs, [k \in {"df"} |-> df_value]), chk)
        r == CallTarget(f, pos, kw, tgt)
    IN  IF ~BindOK(f.sig, pos, kw) THEN Run(<<>>, Raise("TypeError"))
        ELSE IF ShouldCheckArg(df_default, df_value) THEN Then(c, r)
        ELSE r

\* BaseDecorator.__call__.decorated(*args, **kwargs)
BaseDecorator_decorated(self, f, pos, kw, tgt, chk) ==
    LET check_kwargs == Without(self.dict, {"check_func", "enabled", "params"})
    IN  IF ~IsEnabled(self) THEN CallTarget(f, pos, kw, tgt)
        ELSE IF _df(self) = PyNone
             THEN DecoratedNone(self, f, pos, kw, tgt, chk, check_kwargs)
        ELSE IF TypeOf(_df(self)) = "int"
             THEN DecoratedInt(self, f, pos, kw, tgt, chk, check_kwargs)
        ELSE IF TypeOf(_df(self)) = "str"
             THEN DecoratedStr(self, f, pos, kw, tgt, chk, check_kwargs)
        ELSE Run(<<>>, Return(PyNone))

\* CustomCheck.__init__: the instance built, or the error raised.
CustomCheck_init(args, kwargs) ==
    LET enabled == Get(kwargs, "enabled", PyBool(TRUE))
        kw == Without(kwargs, {"enabled"})
        given == Get(kw, "check_func", PyNone)
        check_func == IF Truthy(given) THEN given ELSE args[1]
        check_func_args == IF Truthy(given) THEN args ELSE Rest(args)
        check_func_params ==
            Update(Zip(Rest(getfullargspec_args(check_func)), check_func_args), kw)
        self == Instance("CustomCheck", check_func,
                         [k \in {"enabled"} |-> enabled], check_func_params)
    IN  IF ~Truthy(given) /\ args = <<>>
        THEN [self |-> NoObject, out |-> Raise("IndexError")]
        ELSE IF ~IsCallable(check_func)
        THEN [self |-> NoObject, out |-> Raise("TypeError")]
        ELSE [self |-> self, out |-> Return(PyNone)]

\* CustomCheck.__call__(f): nothing is validated.
CustomCheck_call(self, f) == Return(PyNone)

\* ck.custom_check, the generic entry point CustomCheck calls.
ck_custom_check == PyFunc("custom_check")

\* A custom wrapper that returns what the check call returned.
CustomCheck_decorated_ReturnsCheck(self, f, pos, kw, tgt, chk) ==
    LET r == CallTarget(f, pos, kw, tgt)
        c == CallCheck(ck_custom_check, <<r.out.val, self.check_func>>,
                       self.check_func_params, chk)
    IN  IF IsEnabled(self) THEN Then(r, c) ELSE r

\* CustomCheck.__call__.decorated(*args, **kwargs)
CustomCheck_decorated(self, f, pos, kw, tgt, chk) ==
    LET r == CallTarget(f, pos, kw, tgt)
        df == r.out.val
        c == CallCheck(ck_custom_check, <<df, self.check_func>>,
                       self.check_func_params, chk)
    IN  IF IsEnabled(self)
        THEN Then(Then(r, c), Run(<<>>, Return(df)))
        ELSE r

\* ------------------------------------------------------ names as text
\* Identifiers that the import-time loop converts are sequences of
\* characters, so that the conversion is computed and not looked up.
LowerChars == <<"a", "b", "c", "d", "e", "f", "g", "h", "i", "j", "k", "l", "m", "n", "o", "p", "q", "r", "s", "t", "u", "v", "w", "x", "y", "z">>
UpperChars == <<"A", "B", "C", "D", "E", "F", "G", "H", "I", "J", "K", "L", "M", "N", "O", "P", "Q", "R", "S", "T", "U", "V", "W", "X", "Y", "Z">>

\* Code-point order of the characters of identifiers: A-Z < _ < a-z.
CharOrder == UpperChars \o <<"_">> \o LowerChars
Ord(c) == CHOOSE j \in 1..Len(CharOrder) : CharOrder[j] = c

\* str.upper / str.lower on one character
Upper(c) ==
    IF \E j \in 1..Len(LowerChars) : LowerChars[j] = c
    THEN UpperChars[CHOOSE j \in 1..Len(LowerChars) : LowerChars[j] = c]
    ELSE c
Lower(c) ==
    IF \E j \in 1..Len(UpperChars) : UpperChars[j] = c
    THEN LowerChars[CHOOSE j \in 1..Len(UpperChars) : UpperChars[j] = c]
    ELSE c

\* a < b on str (lexicographic by code point)
RECURSIVE StrLess(_, _)
StrLess(a, b) ==
    IF b = <<>> THEN FALSE
    ELSE IF a = <<>> THEN TRUE
    ELSE IF Head(a) # Head(b) THEN Ord(Head(a)) < Ord(Head(b))
    ELSE StrLess(Tail(a), Tail(b))

\* s.split(sep)
RECURSIVE split(_, _)
split(s, sep) ==
    IF \A j \in 1..Len(s) : s[j] # sep THEN <<s>>
    ELSE LET j == CHOOSE j \in 1..Len(s) :
                     s[j] = sep /\ \A h \in 1..(j - 1) : s[h] # sep
         IN  <<SubSeq(s, 1, j - 1)>> \o split(SubSeq(s, j + 1, Len(s)), sep)

\* word.title() for a word of letters
title(word) ==
    [j \in 1..Len(word) |-> IF j = 1 THEN Upper(word[j]) ELSE Lower(word[j])]

\* "".join(words)
RECURSIVE join(_)
join(words) == IF words = <<>> THEN <<>> ELSE Head(words) \o join(Tail(words))

\* bulwark.generic.snake_to_camel
snake_to_camel(snake_str) ==
    LET words == split(snake_str, "_")
    IN  join([j \in 1..Len(words) |-> title(words[j])])

\* func.__name__
FuncName(func) ==
    CASE func.s = "is_shape" -> <<"i", "s", "_", "s", "h", "a", "p", "e">>
      [] func.s = "is_shape_" -> <<"i", "s", "_", "s", "h", "a", "p", "e", "_">>
      [] func.s = "unique" -> <<"u", "n", "i", "q", "u", "e">>
      [] func.s = "custom_check" -> <<"c", "u", "s", "t", "o", "m", "_", "c", "h", "e", "c", "k">>
      [] func.s = "bad_locations" -> <<"b", "a", "d", "_", "l", "o", "c", "a", "t", "i", "o", "n", "s">>
      [] OTHER -> <<>>

\* func.__module__
FuncModule(func) ==
    IF func.s = "bad_locations" THEN "bulwark.generic" ELSE "bulwark.checks"

\* inspect.isfunction
isfunction(v) == TypeOf(v) = "function"

\* A member of module bulwark.checks as inspect.getmembers yields it.
Member(attr, value) == [attr |-> attr, value |-> value]
FuncMember(id) == Member(FuncName(PyFunc(id)), PyFunc(id))

\* What module bulwark.checks may hold: checks it defines (two of them with
\* names that convert to the same camel-case name), a function it imports
\* from another module, and an imported module.
CkUniverse ==
    {FuncMember("is_shape"), FuncMember("is_shape_"), FuncMember("unique"),
     FuncMember("custom_check"), FuncMember("bad_locations"),
     Member(<<"n", "p">>, [t |-> "module", i |-> 0, s |-> "numpy", items |-> <<>>])}

\* The library the wrappers of the model are built from.
StandardLibrary ==
    {FuncMember("is_shape"), FuncMember("custom_check"),
     FuncMember("bad_locations")}

\* inspect.getmembers(ck, predicate): the members that satisfy predicate,
\* sorted by name.
RECURSIVE SortedByAttr(_)
SortedByAttr(ms) ==
    IF ms = {} THEN <<>>
    ELSE LET m == CHOOSE m \in ms : \A o \in ms \ {m} : StrLess(m.attr, o.attr)
         IN  <<m>> \o SortedByAttr(ms \ {m})
getmembers_isfunction(ms) == SortedByAttr({m \in ms : isfunction(m.value)})

\* [func[1] for func in getmembers(ck, isfunction)
\*          if func[1].__module__ == 'bulwark.checks']
CheckFunctions(ms) ==
    LET all == getmembers_isfunction(ms)
        keep == {j \in 1..Len(all) : FuncModule(all[j].value) = "bulwark.checks"}
        nth(k) == CHOOSE j \in keep : Cardinality({h \in keep : h < j}) = k - 1
    IN  [k \in 1..Cardinality(keep) |-> all[nth(k)].value]

\* A class object: its base, and its check_func class attribute.
Class(cls, base, check_func) == [cls |-> cls, base |-> base, check_func |-> check_func]

\* A factory whose class does not carry the check operation.
decorator_factory_Unbound(decorator_name, func) ==
    Class("decorator_name", "BaseDecorator", PyNone)

\* decorator_factory: a subclass of BaseDecorator with check_func = func.
\* (The class statement names it `decorator_name` whatever the argument.)
decorator_factory(decorator_name, func) ==
    Class("decorator_name", "BaseDecorator", func)

\* class BaseDecorator / class CustomCheck, as their class statements bind them
BaseDecoratorClass == Class("BaseDecorator", "object", PyNone)
CustomCheckClass == Class("CustomCheck", "object", PyNone)
BaseDecoratorName == <<"B", "a", "s", "e", "D", "e", "c", "o", "r", "a", "t", "o", "r">>
CustomCheckName == <<"C", "u", "s", "t", "o", "m", "C", "h", "e", "c", "k">>

\* setattr(module, name, value) / a class statement binding name
SetAttr(ns, name, value) ==
    [n \in DOMAIN ns \cup {name} |-> IF n = name THEN value ELSE ns[n]]

\* ------------------------------------------------------------------ state
VARIABLES
    ck_members,       \* the members of module bulwark.checks
    pc,               \* where the import of bulwark.decorators stands
    check_functions,  \* the module-level list check_functions
    loop_i,           \* how many entries of check_functions the loop has done
    module_ns,        \* the attributes of module bulwark.decorators
    built,            \* the constructor call: class name, args, kwargs
    wrapper,          \* the decorator instance it built (NoObject if none)
    target,           \* the function the instance was applied to last
    wrapped,          \* whether that application produced a wrapped callable
    trace,            \* the calls the last operation made, in order
    outcome,          \* what the last operation returned or raised
    last              \* the last operation and its inputs

vars == <<ck_members, pc, check_functions, loop_i, module_ns,
          built, wrapper, target, wrapped, trace, outcome, last>>

registry_vars == <<ck_members, pc, check_functions, loop_i, module_ns>>
wrapper_vars == <<built, wrapper, target, wrapped, trace, outcome, last>>

\* ----------------------------------------------------------------- inputs
Seqs(S, n) == UNION {[1..m -> S] : m \in 0..n}

\* Every dict whose keys are among DOMAIN vals, key k mapped into vals[k].
Dicts(vals) ==
    UNION {{d \in [K -> UNION {vals[k] : k \in K}] : \A k \in K : d[k] \in vals[k]}
           : K \in SUBSET DOMAIN vals}

\* Target functions: a required df, an optional df defaulting to None after
\* a required x, a df with a non-None default, and one without a df.
f_req == Func("f_req", <<Param("df")>>)
f_opt == Func("f_opt", <<Param("x"), ParamDefault("df", PyNone)>>)
f_def == Func("f_def", <<ParamDefault("df", PyInt(7))>>)
f_x == Func("f_x", <<Param("x")>>)
Targets == {f_req, f_opt, f_def, f_x}

\* What a caller passes to a wrapped callable.
CallValues == {PyNone, PyInt(5)}
CallArgs == Seqs(CallValues, MaxPos)
CallKwargs == Dicts([df |-> CallValues])

\* What a target body does: raise, or return one of these.
TargetResults == {PyNone, PyInt(9), PyTuple(<<PyInt(1), PyInt(2)>>)}
TargetBehaviours ==
    {[raises |-> TRUE, ret |-> PyNone]}
        \cup {[raises |-> FALSE, ret |-> v] : v \in TargetResults}

\* Configuration given to a generated decorator class.
LocatorInputs ==
    {PyNone, PyStr("df"), PyStr("x"), PyFloat(1), PyBool(TRUE)}
        \cup {PyInt(n) : n \in (0 - MaxIdx)..MaxIdx}
EnabledInputs == {PyBool(TRUE), PyBool(FALSE)}
CfgArgs == Seqs({PyInt(3)}, MaxCfg)
CfgKwargs == Dicts([df |-> LocatorInputs, shape |-> {PyInt(4)}, enabled |-> EnabledInputs])

\* Arguments given to CustomCheck: a user's check operation first or by
\* keyword, and its configuration.
UserChecks == {PyFunc("len_longer_than"), PyFunc("is_ok")}
CustomArgs == CfgArgs \cup {<<op>> \o a : op \in UserChecks, a \in CfgArgs}
CustomKwargs ==
    Dicts([check_func |-> UserChecks, l |-> {PyInt(4)}, enabled |-> EnabledInputs])

\* The constructor call Name(*args, **kwargs).
Built(name, args, kwargs) == [name |-> name, args |-> args, kwargs |-> kwargs]
NotBuilt == Built(<<>>, <<>>, EmptyDict)

\* The last operation ("none", "init", "apply" or "call"); for a call, the
\* caller's arguments, what the target body does and whether the check
\* operation raises.
LastOp(op, args, kwargs, tgt, chk) ==
    [op |-> op, args |-> args, kwargs |-> kwargs, tgt |-> tgt, chk |-> chk]
NoTarget == [raises |-> FALSE, ret |-> PyNone]
NoCall == LastOp("none", <<>>, EmptyDict, NoTarget, FALSE)

\* ------------------------------------------------------------------- Init
InitWith(members) ==
    /\ ck_members = members
    /\ pc = "import"
    /\ check_functions = <<>>
    /\ loop_i = 0
    /\ module_ns = [n \in {} |-> BaseDecoratorClass]
    /\ built = NotBuilt
    /\ wrapper = NoObject
    /\ target = NoFunc
    /\ wrapped = FALSE
    /\ trace = <<>>
    /\ outcome = Return(PyNone)
    /\ last = NoCall

Init == InitWith(StandardLibrary)

\* ------------------------------------------- import of bulwark.decorators
\* lines 10-99: class BaseDecorator and def decorator_factory are bound.
DefineBaseDecorator ==
    /\ pc = "import"
    /\ module_ns' = SetAttr(module_ns, BaseDecoratorName, BaseDecoratorClass)
    /\ pc' = "collect"
    /\ UNCHANGED <<ck_members, check_functions, loop_i>>
    /\ UNCHANGED wrapper_vars

\* lines 103-106: check_functions = [...]
CollectCheckFunctions ==
    /\ pc = "collect"
    /\ check_functions' = CheckFunctions(ck_members)
    /\ loop_i' = 0
    /\ pc' = "register"
    /\ UNCHANGED <<ck_members, module_ns>>
    /\ UNCHANGED wrapper_vars

\* lines 108-110: one iteration of `for func in check_functions`
RegisterDecorator ==
    /\ pc = "register"
    /\ loop_i < Len(check_functions)
    /\ LET func == check_functions[loop_i + 1]
           decorator_name == snake_to_camel(FuncName(func))
       IN  module_ns' = SetAttr(module_ns, decorator_name,
                                decorator_factory(decorator_name, func))
    /\ loop_i' = loop_i + 1
    /\ UNCHANGED <<ck_members, pc, check_functions>>
    /\ UNCHANGED wrapper_vars

\* lines 113-148: the loop is over; class CustomCheck is bound.
DefineCustomCheck ==
    /\ pc = "register"
    /\ loop_i = Len(check_functions)
    /\ module_ns' = SetAttr(module_ns, CustomCheckName, CustomCheckClass)
    /\ pc' = "ready"
    /\ UNCHANGED <<ck_members, check_functions, loop_i>>
    /\ UNCHANGED wrapper_vars

\* ------------------------------------------------- building and calling
\* A behaviour follows one decorator instance: it is built once the import
\* is done, applied to a target, and the wrapped callable is called.  A
\* construction overwrites every wrapper variable, an application reads only
\* `wrapper`, and a call reads `wrapper` and `target` and changes neither,
\* so repeating any of them from a later state reaches no state that the
\* first one does not reach.

\* Name(args, **kwargs) for a generated decorator class of the module.
ConstructGenerated ==
    /\ pc = "ready"
    /\ last.op = "none"
    /\ \E name \in DOMAIN module_ns, args \in CfgArgs, kwargs \in CfgKwargs :
          /\ module_ns[name].base = "BaseDecorator"
          /\ LET r == BaseDecorator_init(module_ns[name], args, kwargs)
             IN  /\ wrapper' = r.self
                 /\ outcome' = r.out
          /\ built' = Built(name, args, kwargs)
    /\ last' = LastOp("init", <<>>, EmptyDict, NoTarget, FALSE)
    /\ target' = NoFunc
    /\ wrapped' = FALSE
    /\ trace' = <<>>
    /\ UNCHANGED registry_vars

\* CustomCheck(args, **kwargs) for the module's CustomCheck.
ConstructCustom ==
    /\ pc = "ready"
    /\ last.op = "none"
    /\ \E name \in DOMAIN module_ns, args \in CustomArgs, kwargs \in CustomKwargs :
          /\ module_ns[name] = CustomCheckClass
          /\ LET r == CustomCheck_init(args, kwargs)
             IN  /\ wrapper' = r.self
                 /\ outcome' = r.out
          /\ built' = Built(name, args, kwargs)
    /\ last' = LastOp("init", <<>>, EmptyDict, NoTarget, FALSE)
    /\ target' = NoFunc
    /\ wrapped' = FALSE
    /\ trace' = <<>>
    /\ UNCHANGED registry_vars

\* wrapper(f): __call__ of the instance built last.
Apply ==
    /\ wrapper # NoObject
    /\ last.op = "init"
    /\ \E f \in Targets :
          /\ target' = f
          /\ outcome' = IF wrapper.kind = "BaseDecorator"
                        THEN BaseDecorator_call(wrapper, f)
                        ELSE CustomCheck_call(wrapper, f)
          /\ wrapped' = (outcome'.kind = "return")
    /\ trace' = <<>>
    /\ last' = LastOp("apply", <<>>, EmptyDict, NoTarget, FALSE)
    /\ UNCHANGED <<built, wrapper>>
    /\ UNCHANGED registry_vars

\* wrapped(*args, **kwargs): one call of the wrapped callable.
Invoke ==
    /\ wrapped
    /\ last.op = "apply"
    /\ \E pos \in CallArgs, kw \in CallKwargs,
          tgt \in TargetBehaviours, chk \in BOOLEAN :
          /\ LET r == IF wrapper.kind = "BaseDecorator"
                      THEN BaseDecorator_decorated(wrapper, target, pos, kw, tgt, chk)
                      ELSE CustomCheck_decorated(wrapper, target, pos, kw, tgt, chk)
             IN  /\ trace' = r.trace
                 /\ outcome' = r.out
          /\ last' = LastOp("call", pos, kw, tgt, chk)
    /\ UNCHANGED <<built, wrapper, target, wrapped>>
    /\ UNCHANGED registry_vars


Next ==
    \/ DefineBaseDecorator
    \/ CollectCheckFunctions
    \/ RegisterDecorator
    \/ DefineCustomCheck
    \/ ConstructGenerated
    \/ ConstructCustom
    \/ Apply
    \/ Invoke

Spec == Init /\ [][Next]_vars

\* The import alone, for whatever module bulwark.checks holds.
InitRegistry == \E members \in SUBSET CkUniverse : InitWith(members)
NextRegistry ==
    \/ DefineBaseDecorator
    \/ CollectCheckFunctions
    \/ RegisterDecorator
    \/ DefineCustomCheck
SpecRegistry == InitRegistry /\ [][NextRegistry]_vars

\* ------------------------------------------------- vocabulary of the claims
IsCallState == last.op = "call"
IsGenerated == wrapper.kind = "BaseDecorator"
IsCustom == wrapper.kind = "CustomCheck"
Locator == _df(wrapper)
\* The wrapper's enabled flag is true.
WrapperEnabled == Truthy(wrapper.dict["enabled"])

TargetCalls == {j \in 1..Len(trace) : trace[j].ev = "target"}
CheckCalls == {j \in 1..Len(trace) : trace[j].ev = "check"}
NTarget == Cardinality(TargetCalls)
NCheck == Cardinality(CheckCalls)

\* The caller's arguments bind to the target's signature.
ArgsBind == BindOK(target.sig, last.args, last.kwargs)
\* The target body, if entered, returns.
TargetReturns == ArgsBind /\ ~last.tgt.raises

\* The declared parameter the string locator names, and the value the
\* caller's arguments give it: positional, else keyword, else the default.
NamedParam == target.sig[ParamIndex(target.sig, Locator.s)]
NamedValue ==
    LET j == ParamIndex(target.sig, Locator.s)
    IN  IF j <= Len(last.args) THEN last.args[j]
        ELSE IF Locator.s \in DOMAIN last.kwargs THEN last.kwargs[Locator.s]
        ELSE NamedParam.default

\* The configuration a generated wrapper forwards to its check operation.
ForwardedConfig == Without(wrapper.dict, {"enabled", "params", "df"})

\* The check call a generated wrapper makes on data value v.
CheckOn(v) ==
    CheckEv(wrapper.check_func, <<>>, Update(ForwardedConfig, [k \in {"df"} |-> v]))

\* The call of the target with the caller's own arguments, returning v.
TargetCallReturning(v) == TargetEv(target, last.args, last.kwargs, v)

\* ------------------------------------------------------------------ claims

\* C1: an enabled wrapper whose string locator names a REQUIRED parameter
\* of the target runs the check on that argument's bound value on every
\* call whose arguments bind, also when the caller passes None for it.
C1_RequiredArgAlwaysChecked ==
    (/\ IsCallState /\ IsGenerated /\ WrapperEnabled
     /\ TypeOf(Locator) = "str"
     /\ NamedParam.default = ParameterEmpty
     /\ ArgsBind)
        => /\ NCheck = 1
           /\ trace[1] = CheckOn(NamedValue)

\* C2: a wrapper (generated, any locator mode, or CustomCheck) whose
\* enabled flag is false never calls the check operation, and returns
\* exactly what the target returned for the caller's arguments.
C2_DisabledBypass ==
    (IsCallState /\ ~WrapperEnabled)
        => /\ NCheck = 0
           /\ TargetReturns =>
                 /\ trace = <<TargetCallReturning(last.tgt.ret)>>
                 /\ outcome = Return(last.tgt.ret)
           /\ outcome.kind = "return" => TargetReturns

\* C2 witness: a disabled wrapper with an integer locator whose target
\* returned a non-tuple, with a check that would raise: the call returns.
C2_Witness ==
    /\ IsCallState /\ IsGenerated /\ ~WrapperEnabled
    /\ TypeOf(Locator) = "int"
    /\ last.chk
    /\ outcome = Return(PyInt(9))

\* C3: an enabled wrapper with locator None calls the target first, then
\* the check operation exactly once on the target's whole return value (a
\* tuple as a whole) with the forwarded configuration; if the check raises
\* the error propagates and no result is returned, otherwise the target's
\* result is returned.
C3_ReturnValueMode ==
    (/\ IsCallState /\ IsGenerated /\ WrapperEnabled
     /\ Locator = PyNone
     /\ TargetReturns)
        => /\ trace = <<TargetCallReturning(last.tgt.ret), CheckOn(last.tgt.ret)>>
           /\ outcome = IF last.chk THEN Raise("CheckError")
                                    ELSE Return(last.tgt.ret)

\* C3 witness: locator None, the target returned a tuple, the check saw
\* the whole tuple and passed, and the tuple was returned.
C3_Witness ==
    /\ IsCallState /\ IsGenerated /\ WrapperEnabled
    /\ Locator = PyNone
    /\ NCheck = 1
    /\ trace[2].kw["df"] = PyTuple(<<PyInt(1), PyInt(2)>>)
    /\ "shape" \in DOMAIN trace[2].kw
    /\ outcome = Return(PyTuple(<<PyInt(1), PyInt(2)>>))

\* Python's res[i] for a tuple of n elements, i within -n .. n-1.
InRange(res, i) == (0 - Len(res.items)) <= i /\ i < Len(res.items)
ElementAt(res, i) ==
    IF i >= 0 THEN res.items[i + 1] ELSE res.items[Len(res.items) + i + 1]

\* C4: an enabled wrapper with integer locator i calls the check operation
\* only when the target's result is a tuple, and then exactly once, on
\* element result[i]; when the result is not a tuple the call fails with a
\* type error after one call of the target and no call of the check.
C4_TupleElementMode ==
    (/\ IsCallState /\ IsGenerated /\ WrapperEnabled
     /\ TypeOf(Locator) = "int"
     /\ TargetReturns)
        => LET res == last.tgt.ret
           IN  /\ TypeOf(res) # "tuple" =>
                     /\ trace = <<TargetCallReturning(res)>>
                     /\ outcome = Raise("TypeError")
               /\ NCheck > 0 => TypeOf(res) = "tuple"
               /\ (TypeOf(res) = "tuple" /\ InRange(res, Locator.i)) =>
                     /\ trace = <<TargetCallReturning(res),
                                  CheckOn(ElementAt(res, Locator.i))>>
                     /\ outcome = IF last.chk THEN Raise("CheckError")
                                              ELSE Return(res)

\* C4 witness: locator 1 on a 2-tuple result: the check saw the second
\* element only, and the whole tuple was returned.
C4_Witness ==
    /\ IsCallState /\ IsGenerated /\ WrapperEnabled
    /\ Locator = PyInt(1)
    /\ NCheck = 1
    /\ trace[2].kw["df"] = PyInt(2)
    /\ outcome = Return(PyTuple(<<PyInt(1), PyInt(2)>>))

\* C5: with an enabled string-locator wrapper, a check that runs runs
\* before the target; if the check raises the target is never called; if
\* the check passes or is skipped the target is then called and its result
\* returned.
C5_CheckBeforeTarget ==
    (/\ IsCallState /\ IsGenerated /\ WrapperEnabled
     /\ TypeOf(Locator) = "str")
        => /\ \A c \in CheckCalls : \A t \in TargetCalls : c < t
           /\ NCheck <= 1
           /\ (NCheck = 1 /\ last.chk) =>
                 /\ NTarget = 0
                 /\ outcome = Raise("CheckError")
           /\ (ArgsBind /\ (NCheck = 0 \/ ~last.chk)) =>
                 /\ NTarget = 1
                 /\ ~last.tgt.raises =>
                       /\ trace[Len(trace)] = TargetCallReturning(last.tgt.ret)
                       /\ outcome = Return(last.tgt.ret)

\* C5 witness: f_opt called with df=5 under a check that raises: the check
\* ran, the target did not.
C5_Witness ==
    /\ IsCallState /\ IsGenerated /\ WrapperEnabled
    /\ Locator = PyStr("df")
    /\ target = f_opt
    /\ last.chk
    /\ NCheck = 1
    /\ NTarget = 0
    /\ outcome = Raise("CheckError")

\* C6: with an enabled string-locator wrapper naming a parameter that HAS
\* a declared default, the check runs if and only if the parameter's bound
\* value (after the target's declared defaults are applied) is not None,
\* and it runs on that bound value.
C6_DefaultedArg ==
    (/\ IsCallState /\ IsGenerated /\ WrapperEnabled
     /\ TypeOf(Locator) = "str"
     /\ NamedParam.default # ParameterEmpty
     /\ ArgsBind)
        => /\ NCheck = (IF NamedValue # PyNone THEN 1 ELSE 0)
           /\ NamedValue # PyNone => trace[1] = CheckOn(NamedValue)

\* C6 witness: f_def(df=7) called with no argument: the check ran on the
\* declared default 7.
C6_Witness ==
    /\ IsCallState /\ IsGenerated /\ WrapperEnabled
    /\ Locator = PyStr("df")
    /\ target = f_def
    /\ last.args = <<>> /\ last.kwargs = EmptyDict
    /\ NCheck = 1
    /\ trace[1].kw["df"] = PyInt(7)

\* The locator a constructor call gives: the `df` keyword (df is the check
\* operation's first parameter, so no positional configuration binds it).
GivenLocator == Get(built.kwargs, "df", PyNone)
BuiltGenerated ==
    /\ built # NotBuilt
    /\ module_ns[built.name].base = "BaseDecorator"

\* C7: no wrapped callable exists with an invalid configuration.  Building
\* a generated wrapper with a locator that is not None, an int or a str
\* raises a type error and yields no object; applying a string-locator
\* wrapper to a target without a parameter of that name raises a naming
\* error, enabled or not, and yields no wrapped callable; neither calls
\* the target or the check.  So whenever a wrapped callable exists its
\* locator is None, an int, or a str naming a parameter of its target.
C7_ValidConfiguration ==
    /\ (/\ last.op = "init" /\ BuiltGenerated
        /\ TypeOf(GivenLocator) \notin {"NoneType", "int", "str"})
          => /\ outcome = Raise("TypeError")
             /\ wrapper = NoObject
             /\ trace = <<>>
    /\ (/\ last.op = "apply" /\ IsGenerated
        /\ TypeOf(Locator) = "str"
        /\ \A j \in 1..Len(target.sig) : target.sig[j].name # Locator.s)
          => /\ outcome = Raise("NameError")
             /\ ~wrapped
             /\ trace = <<>>
    /\ (wrapped /\ IsGenerated)
          => \/ Locator = PyNone
             \/ TypeOf(Locator) = "int"
             \/ /\ TypeOf(Locator) = "str"
                /\ \E j \in 1..Len(target.sig) : target.sig[j].name = Locator.s
    /\ IsCallState => wrapped

\* C7 witness: a disabled wrapper with locator "x" applied to f_req(df):
\* the application raised a naming error.
C7_Witness ==
    /\ last.op = "apply"
    /\ IsGenerated /\ ~WrapperEnabled
    /\ Locator = PyStr("x")
    /\ target = f_req
    /\ outcome = Raise("NameError")
    /\ ~wrapped

\* C8: one call of any wrapped callable calls the target at most once;
\* on every path that returns it called the target exactly once, with the
\* caller's own arguments, and returns what that call returned.
C8_TargetCalledOnce ==
    IsCallState
        => /\ NTarget <= 1
           /\ outcome.kind = "return" =>
                 /\ NTarget = 1
                 /\ \A t \in TargetCalls :
                       /\ trace[t].pos = last.args
                       /\ trace[t].kw = last.kwargs
                       /\ trace[t].ret = outcome.val
                       /\ trace[t].func = PyFunc(target.name)

\* C8 witness: an enabled CustomCheck wrapper whose target returned a
\* tuple and whose check passed: the call returns the tuple.
C8_Witness ==
    /\ IsCallState /\ IsCustom /\ WrapperEnabled
    /\ NCheck = 1 /\ NTarget = 1
    /\ outcome = Return(PyTuple(<<PyInt(1), PyInt(2)>>))

\* The two construction forms of CustomCheck, and the call of the other
\* form on the same (op, a1..an, kw).
PositionalForm ==
    /\ "check_func" \notin DOMAIN built.kwargs
    /\ built.args # <<>>
    /\ IsCallable(built.args[1])
KeywordForm == "check_func" \in DOMAIN built.kwargs
OtherForm ==
    IF KeywordForm
    THEN CustomCheck_init(<<built.kwargs["check_func"]>> \o built.args,
                          Without(built.kwargs, {"check_func"}))
    ELSE CustomCheck_init(Rest(built.args),
                          Update(built.kwargs,
                                 [k \in {"check_func"} |-> built.args[1]]))

\* C9: CustomCheck(op, a1..an, **kw) and CustomCheck(a1..an, check_func=op,
\* **kw) hold the same check operation and the same bound configuration,
\* and their wrapped callables make the same calls with the same outcome.
C9_FormsEquivalent ==
    (IsCustom /\ (PositionalForm \/ KeywordForm))
        => LET other == OtherForm.self
           IN  /\ other.check_func = wrapper.check_func
               /\ other.check_func_params = wrapper.check_func_params
               /\ other.dict = wrapper.dict
               /\ IsCallState =>
                     CustomCheck_decorated(other, target, last.args, last.kwargs,
                                           last.tgt, last.chk)
                         = Run(trace, outcome)

\* The check operations module bulwark.checks owns.
OwnedChecks ==
    {m.value : m \in {m \in ck_members :
                        isfunction(m.value) /\ FuncModule(m.value) = "bulwark.checks"}}
DerivedName(op) == snake_to_camel(FuncName(op))
\* Among the owned checks with the derived name n, the one whose own name
\* sorts last.
LastNamed(n) ==
    CHOOSE op \in OwnedChecks :
        /\ DerivedName(op) = n
        /\ \A o \in OwnedChecks :
              DerivedName(o) = n => ~StrLess(FuncName(op), FuncName(o))

\* C10 as claimed: once the import is done, for every check operation op
\* the library owns (custom_check included), the module attribute named
\* snake_to_camel(op's name) is a generated decorator class bound to op.
C10_EveryCheckRegistered ==
    pc = "ready"
        => \A op \in OwnedChecks :
              /\ DerivedName(op) \in DOMAIN module_ns
              /\ module_ns[DerivedName(op)].base = "BaseDecorator"
              /\ module_ns[DerivedName(op)].check_func = op

\* C10 amended: once the import is done, for every owned check operation
\* op whose derived name is not CustomCheck, the module attribute of that
\* name is a generated decorator class bound to the owned check that sorts
\* last among those with that derived name (op itself when no other shares
\* it), taking that check's parameters after the first as configuration;
\* the attribute CustomCheck is the hand-written class.
C10_RegisteredExceptShadowed ==
    pc = "ready"
        => /\ \A op \in OwnedChecks :
                 LET n == DerivedName(op)
                 IN  /\ n \in DOMAIN module_ns
                     /\ n # CustomCheckName =>
                           /\ module_ns[n].base = "BaseDecorator"
                           /\ module_ns[n].check_func = LastNamed(n)
                           /\ BaseDecorator_init(module_ns[n], <<>>, EmptyDict)
                                 .self.dict["params"]
                                 = PyList(Names(Rest(getfullargspec_args(LastNamed(n)))))
           /\ module_ns[CustomCheckName] = CustomCheckClass

\* C10 witness: the import is done for a library that owns custom_check
\* and two checks with the same derived name.
C10_Witness ==
    /\ pc = "ready"
    /\ {PyFunc("custom_check"), PyFunc("is_shape"), PyFunc("is_shape_"),
        PyFunc("unique")} \subseteq OwnedChecks
    /\ module_ns[DerivedName(PyFunc("is_shape"))].check_func = PyFunc("is_shape_")

====
